---- MODULE Spec2Model ----
(***************************************************************************)
(* The SPI pipeline of imgw_pipeline.main: fill_missing_dates,             *)
(* interpolate_total_precip, and for each window length                    *)
(* calculate_stations_rolling_precipitation_sum, calculate_stations_spi    *)
(* and plot_spi_and_total_precip_time_series; and, each called on its own, *)
(* drop_stations_below_threshold, validate_zip, and obtain_data with       *)
(* unzip_file.                                                             *)
(*                                                                         *)
(* A table is a sequence of rows (records); the row order is the order of  *)
(* the pandas frame.  Dates are day ordinals.  total_precip is an exact    *)
(* rational kept as an integer number of 1/Unit, so that the linear        *)
(* interpolation of the code is computed without rounding.                 *)
(***************************************************************************)
EXTENDS Integers, Sequences, FiniteSets, TLC

\* ---------------------------------------------------------------- bounds
MaxDay == 4
MaxRows == 2
MaxWindow == 3

\* ------------------------------------------------------------ primitives
\* A missing value (pandas NaN) in a numeric column.
NaN == -1

\* The station codes of the inputs.
Stations == {1, 2}
Days == 1..MaxDay

RECURSIVE Factorial(_)
Factorial(n) == IF n <= 1 THEN 1 ELSE n * Factorial(n - 1)

Min(S) == CHOOSE x \in S : \A y \in S : x <= y
Max(S) == CHOOSE x \in S : \A y \in S : x >= y

RECURSIVE SumOver(_, _)
SumOver(f, S) ==
    IF S = {} THEN 0
    ELSE LET i == Min(S) IN f[i] + SumOver(f, S \ {i})

RECURSIVE Flatten(_)
Flatten(ss) == IF ss = <<>> THEN <<>> ELSE Head(ss) \o Flatten(Tail(ss))

\* The calendar, compressed: a year is a month of two days and a month of
\* one day (months of unequal length, as in the Gregorian calendar).
MonthLengths == <<2, 1>>
DaysPerYear == SumOver(MonthLengths, DOMAIN MonthLengths)

\* The days of the calendar: two whole years, and the days of the inputs.
Horizon == Max({MaxDay + 1, 2 * DaysPerYear})

\* One unit of precipitation: every difference of two days divides it.
Unit == Factorial(Horizon - 1)

\* The precipitation type of an observed row, and the missing type of a
\* row that was not observed.
PrecipTypes == {"W"}
NoType == "NaN"

\* The observed precipitation values of the inputs (10.0 and 20.0).
Precips == {10 * Unit, 20 * Unit}

\* The year and the month of every day the tables can hold.
Calendar ==
    [d \in 1..Horizon |->
        LET doy == ((d - 1) % DaysPerYear) + 1
        IN  [year |-> ((d - 1) \div DaysPerYear) + 1,
             month |-> Min({m \in DOMAIN MonthLengths :
                               doy <= SumOver(MonthLengths, 1..m)})]]

\* date.dt.year
YearOf(d) == Calendar[d].year

\* date.dt.month
MonthOf(d) == Calendar[d].month

\* Index.unique(): the values in the order of their first appearance.
RECURSIVE Unique(_)
Unique(seq) ==
    IF seq = <<>> THEN <<>>
    ELSE LET init == Unique(SubSeq(seq, 1, Len(seq) - 1))
             last == seq[Len(seq)]
         IN  IF \E i \in DOMAIN init : init[i] = last THEN init
             ELSE Append(init, last)

\* The values in ascending order (the order of a sorted group key).
RECURSIVE Ascending(_)
Ascending(S) ==
    IF S = {} THEN <<>> ELSE <<Min(S)>> \o Ascending(S \ {Min(S)})

Column(df, col) == [i \in DOMAIN df |-> df[i][col]]
StationCodes(df) == {df[i].station_code : i \in DOMAIN df}

\* The days from end down to start.
DescendingDateRange(start, end) == [i \in 1..(end - start + 1) |-> end - i + 1]

\* pd.date_range(start, end, freq="D")
DateRange(start, end) == [i \in 1..(end - start + 1) |-> start + i - 1]

\* ------------------------------------------------- fill_missing_dates
\* pd.MultiIndex.from_product([stations, date_range])
FromProduct(stations, date_range) ==
    Flatten([i \in DOMAIN stations |->
        [j \in DOMAIN date_range |->
            [station_code |-> stations[i], date |-> date_range[j]]]])

\* The days the completed calendar spans: min and max over the whole index.
CompleteDateRange(df) ==
    DateRange(Min({df[i].date : i \in DOMAIN df}),
              Max({df[i].date : i \in DOMAIN df}))

\* df_reindexed alone: every key row with missing values.
KeysWithoutValues(keys, df) ==
    [k \in DOMAIN keys |->
        [station_code |-> keys[k].station_code, date |-> keys[k].date,
         total_precip |-> NaN, precip_type |-> NoType]]

\* df_reindexed.merge(unindexed_df.reset_index(), on=[station_code, date],
\* how="left"): every key row, with each matching row of df in df's order,
\* or with missing values when none matches.
MergeLeft(keys, df) ==
    Flatten([k \in DOMAIN keys |->
        LET hits == SelectSeq(df, LAMBDA r :
                        r.station_code = keys[k].station_code
                        /\ r.date = keys[k].date)
        IN  IF hits = <<>>
            THEN <<[station_code |-> keys[k].station_code,
                    date |-> keys[k].date, total_precip |-> NaN,
                    precip_type |-> NoType]>>
            ELSE hits])

\* A frame without the stable sort of its station_code index.
KeepRowOrder(df) == df

\* full_dates.combine_first(filling_info): the outer join of the two
\* station_code indexes sorts the rows by station_code, keeping the order
\* of the rows of one station.
CombineFirst(df) ==
    LET codes == Ascending(StationCodes(df))
    IN  Flatten([k \in DOMAIN codes |->
            SelectSeq(df, LAMBDA r : r.station_code = codes[k])])

fill_missing_dates(df) ==
    LET stations == Unique(Column(df, "station_code"))
        complete_index == FromProduct(stations, CompleteDateRange(df))
    IN  CombineFirst(MergeLeft(complete_index, df))

\* --------------------------------------------- interpolate_total_precip
\* The rows that hold a value, of whichever station.
KnownRowsOfAnyStation(df, station) ==
    {i \in DOMAIN df : df[i].total_precip # NaN}

\* The rows of one station that hold a value.
KnownRows(df, station) ==
    {i \in DOMAIN df :
        df[i].station_code = station /\ df[i].total_precip # NaN}

\* The previous known value carried forward (method="pad").
PadBetween(t, t1, v1, t2, v2) == v1

\* np.interp between the nearest known values at t1 <= t <= t2.
LinearBetween(t, t1, v1, t2, v2) ==
    IF t1 = t2 THEN v1 ELSE v1 + (((v2 - v1) * (t - t1)) \div (t2 - t1))

\* limit_direction="forward": nothing is filled before the first known
\* value.
FillForwardOnly(df, known, t) ==
    IF \A i \in known : df[i].date > t
    THEN NaN
    ELSE df[CHOOSE i \in known :
                \A j \in known : df[i].date >= df[j].date].total_precip

\* limit_direction="both": a value before the first known one takes the
\* first, a value after the last known one takes the last.
FillOutside(df, known, t) ==
    IF \A i \in known : df[i].date > t
    THEN df[CHOOSE i \in known :
                \A j \in known : df[i].date <= df[j].date].total_precip
    ELSE df[CHOOSE i \in known :
                \A j \in known : df[i].date >= df[j].date].total_precip

\* Series.interpolate(method="time", limit_direction="both") at date t of
\* the series of one station: the index values are the abscissae.
InterpolateAt(df, station, t) ==
    LET known == KnownRows(df, station)
        before == {i \in known : df[i].date <= t}
        after == {i \in known : df[i].date >= t}
    IN  IF known = {} THEN NaN
        ELSE IF before = {} \/ after = {} THEN FillOutside(df, known, t)
        ELSE LET i1 == CHOOSE i \in before :
                           \A j \in before : df[i].date >= df[j].date
                 i2 == CHOOSE i \in after :
                           \A j \in after : df[i].date <= df[j].date
             IN  LinearBetween(t, df[i1].date, df[i1].total_precip,
                               df[i2].date, df[i2].total_precip)

\* df.drop(col, axis=1) of one row.
DropColumn(row, col) == [c \in (DOMAIN row) \ {col} |-> row[c]]

\* df.drop("precip_type", axis=1), then the loop over
\* interpolated["station_code"].unique(): each station's missing values
\* are replaced from that station's own series.
interpolate_total_precip(df) ==
    [i \in DOMAIN df |->
        LET row == DropColumn(df[i], "precip_type")
        IN  IF row.total_precip # NaN THEN row
            ELSE [row EXCEPT !.total_precip =
                     InterpolateAt(df, row.station_code, row.date)]]

\* ------------------------ calculate_stations_rolling_precipitation_sum
\* The key of a group by station and month alone: the months of
\* different years fall into one group.
GroupKeyWithoutYear(r) ==
    [station_code |-> r.station_code, year |-> 1, month |-> MonthOf(r.date)]

\* The key of a group of df.groupby([station_code, year, month]).
GroupKey(r) ==
    [station_code |-> r.station_code, year |-> YearOf(r.date),
     month |-> MonthOf(r.date)]

KeyLess(a, b) ==
    \/ a.station_code < b.station_code
    \/ a.station_code = b.station_code /\ a.year < b.year
    \/ a.station_code = b.station_code /\ a.year = b.year /\ a.month < b.month

\* The group keys in descending order.
RECURSIVE DescendingKeys(_)
DescendingKeys(S) ==
    IF S = {} THEN <<>>
    ELSE LET k == CHOOSE x \in S : \A y \in S : x = y \/ KeyLess(y, x)
         IN  <<k>> \o DescendingKeys(S \ {k})

\* The group keys in ascending order (groupby sorts its keys).
RECURSIVE SortedKeys(_)
SortedKeys(S) ==
    IF S = {} THEN <<>>
    ELSE LET k == CHOOSE x \in S : \A y \in S : x = y \/ KeyLess(x, y)
         IN  <<k>> \o SortedKeys(S \ {k})

\* Series.sum() of the rows of a group: missing values are skipped.
GroupSum(df, rows) ==
    SumOver([i \in DOMAIN df |->
                IF df[i].total_precip = NaN THEN 0 ELSE df[i].total_precip],
            rows)

\* df.groupby([...])["total_precip"].sum() followed by reset_index().
MonthlyTotals(df) ==
    LET keys == SortedKeys({GroupKey(df[i]) : i \in DOMAIN df})
    IN  [k \in DOMAIN keys |->
            [station_code |-> keys[k].station_code, year |-> keys[k].year,
             month |-> keys[k].month,
             total_precip |->
                 GroupSum(df, {i \in DOMAIN df : GroupKey(df[i]) = keys[k]})]]

\* Series.rolling(window).sum() of one series: missing until the window
\* is full.
RollingSum(values, w) ==
    [j \in DOMAIN values |->
        IF j < w THEN NaN ELSE SumOver(values, (j - w + 1)..j)]

\* df_sum.rolling(window)["total_precip"].sum(): one window sliding over
\* the rows of all stations.
UngroupedRolling(totals, w) == RollingSum(Column(totals, "total_precip"), w)

\* df_sum.groupby("station_code").rolling(window)["total_precip"].sum():
\* the station groups in ascending order, each rolled on its own.
GroupedRolling(totals, w) ==
    LET codes == Ascending(StationCodes(totals))
    IN  Flatten([k \in DOMAIN codes |->
            RollingSum(Column(SelectSeq(totals, LAMBDA r :
                           r.station_code = codes[k]), "total_precip"), w)])

\* rolling_sum.index = idx; dropna(); reset_index(): the rolled values
\* take the keys of df_sum by position, and the missing ones are dropped.
RollingOfTotals(totals, w) ==
    LET rolled == GroupedRolling(totals, w)
    IN  SelectSeq([i \in DOMAIN totals |->
                      [totals[i] EXCEPT !.total_precip = rolled[i]]],
                  LAMBDA r : r.total_precip # NaN)

calculate_stations_rolling_precipitation_sum(df, w) ==
    RollingOfTotals(MonthlyTotals(df), w)

\* ------------------------------------------------------------- spi
\* stats.gamma.fit(data, loc=0): the maximum-likelihood parameters are a
\* function of the sample as a multiset; a sample without two distinct
\* values has no fit (the parameters are NaN).
calculate_gamma_parameters(data) ==
    LET values == {data[i] : i \in DOMAIN data}
    IN  IF Cardinality(values) < 2 THEN <<>>
        ELSE [v \in values |-> Cardinality({i \in DOMAIN data : data[i] = v})]

\* norm.ppf(gamma.cdf(val, *params)): NaN under NaN parameters.
SpiValue(val, params) ==
    IF params = <<>> THEN [params |-> <<>>, val |-> NaN]
    ELSE [params |-> params, val |-> val]

IsFiniteSpi(x) == x.params # <<>>

get_spi(precipitation) ==
    LET gamma_params == calculate_gamma_parameters(precipitation)
    IN  [i \in DOMAIN precipitation |->
            SpiValue(precipitation[i], gamma_params)]

\* The series of a station has no gamma fit: fewer than two distinct
\* values (a single value, a constant series, an all-zero series).
Degenerate(df, s) ==
    calculate_gamma_parameters(
        Column(SelectSeq(df, LAMBDA r : r.station_code = s),
               "total_precip")) = <<>>

\* stats.gamma.fit on a series without a fit: a scipy that checks the
\* fitted parameters raises FitError, one that does not returns NaN
\* parameters.  The call can raise when some station has such a series.
GammaFitCanRaise(df) == \E s \in StationCodes(df) : Degenerate(df, s)

\* groupby("station_code")["total_precip"].apply(get_spi).explode(): the
\* lists of the stations in ascending station order, one after another.
ExplodedSpi(df) ==
    LET codes == Ascending(StationCodes(df))
    IN  Flatten([k \in DOMAIN codes |->
            get_spi(Column(SelectSeq(df, LAMBDA r :
                        r.station_code = codes[k]), "total_precip"))])

\* The stations calculate_stations_spi reports as failed next to the table
\* it returns: it has no statement that warns, logs or collects errors,
\* whatever the table.
ReportedStations(df) == {}

\* copy["SPI"] = spi.values: the values are assigned by position.
calculate_stations_spi(df) ==
    LET values == ExplodedSpi(df)
    IN  [i \in DOMAIN df |->
            [station_code |-> df[i].station_code, year |-> df[i].year,
             month |-> df[i].month, total_precip |-> df[i].total_precip,
             SPI |-> values[i]]]

\* ----------------------------- plot_spi_and_total_precip_time_series
\* The first day of a month of a year.
FirstDayOf(y, m) ==
    (y - 1) * DaysPerYear + SumOver(MonthLengths, 1..(m - 1)) + 1

\* df["date"] = pd.to_datetime(year + "-" + month, format="%Y-%m"): the
\* frame itself gets the column date.
WithDateColumn(df) ==
    [i \in DOMAIN df |->
        [c \in (DOMAIN df[i]) \cup {"date"} |->
            IF c = "date" THEN FirstDayOf(df[i].year, df[i].month)
            ELSE df[i][c]]]

\* ValueError("Number of rows must be a positive integer, not 0"), raised
\* by plt.subplots(0, 2) when the table has no station.
SubplotsError == [type |-> "ValueError", stations |-> {}]

\* ------------------------------------- drop_stations_below_threshold
\* df.groupby("name")["date"].agg([len]): the number of rows of a name.
RecordsCount(df, name) == Cardinality({i \in DOMAIN df : df[i].name = name})

\* The rows whose name has at least threshold rows, in the order of df.
drop_stations_below_threshold(df, threshold) ==
    LET stations_above_threshold ==
            {df[i].name : i \in {k \in DOMAIN df :
                RecordsCount(df, df[k].name) >= threshold}}
    IN  SelectSeq(df, LAMBDA r : r.name \in stations_above_threshold)

\* ---------------------------------------------------- validate_zip
\* A name is a sequence of characters.
DigitValue ==
    ("0" :> 0) @@ ("1" :> 1) @@ ("2" :> 2) @@ ("3" :> 3) @@ ("4" :> 4) @@
    ("5" :> 5) @@ ("6" :> 6) @@ ("7" :> 7) @@ ("8" :> 8) @@ ("9" :> 9)

IsDigit(c) == c \in DOMAIN DigitValue

\* str.lower() of one character (of the letters the names are made of).
LowerChar(c) ==
    IF c = "Z" THEN "z" ELSE IF c = "I" THEN "i" ELSE IF c = "P" THEN "p"
    ELSE c

\* name.lower()
Lower(name) == [i \in DOMAIN name |-> LowerChar(name[i])]

\* name.endswith(suffix)
EndsWith(name, suffix) ==
    /\ Len(name) >= Len(suffix)
    /\ SubSeq(name, Len(name) - Len(suffix) + 1, Len(name)) = suffix

\* name.split("_")[0]: the characters before the first underscore, the
\* whole name when it has none.
SplitHead(name) ==
    LET cuts == {i \in DOMAIN name : name[i] = "_"}
    IN  IF cuts = {} THEN name ELSE SubSeq(name, 1, Min(cuts) - 1)

\* What int() yields for a text that is not a decimal number: it raises
\* ValueError.
NotAnInteger == -1

\* int(text) of a text of the characters of the names.
RECURSIVE ParseInt(_)
ParseInt(text) ==
    IF text = <<>> \/ \E i \in DOMAIN text : ~IsDigit(text[i])
    THEN NotAnInteger
    ELSE IF Len(text) = 1 THEN DigitValue[text[1]]
    ELSE 10 * ParseInt(SubSeq(text, 1, Len(text) - 1))
             + DigitValue[text[Len(text)]]

\* The year is read from the text before the first underscore.
YearText(name) == SplitHead(name)

\* name.lower().endswith("zip") and int(name.split("_")[0]) in
\* range(start_year, end_year + 1): "True", "False", or the ValueError of
\* int(), which is evaluated only when the name ends in zip.
validate_zip(name, start_year, end_year) ==
    IF ~EndsWith(Lower(name), <<"z", "i", "p">>) THEN "False"
    ELSE LET year == ParseInt(YearText(name))
         IN  IF year = NotAnInteger THEN "ValueError"
             ELSE IF year \in start_year..end_year THEN "True"
             ELSE "False"

\* ------------------------------------------------------ unzip_file
\* create_interim_dir: the directory of an archive is named by the text
\* of its file name before the first underscore (the year).
create_interim_dir(zip_save_path) == SplitHead(zip_save_path)

\* unzip_file of a downloaded archive.  zipfile.ZipFile(zip_save_path)
\* stands before the try: an archive that cannot be opened raises
\* BadZipFile out of the function.  extractall stands inside it: an
\* archive that cannot be extracted yields the empty list.  Otherwise the
\* paths of the members under the directory of the archive.
unzip_file(archive) ==
    LET unzipped_save_path == create_interim_dir(archive.name)
    IN  IF archive.fault = "open"
        THEN [raised |-> TRUE, files |-> <<>>]
        ELSE IF archive.fault = "extract"
        THEN [raised |-> FALSE, files |-> <<>>]
        ELSE [raised |-> FALSE,
              files |-> [i \in DOMAIN archive.members |->
                            [dir |-> unzipped_save_path,
                             file |-> archive.members[i]]]]

\* zipfile.BadZipFile("File is not a zip file"), raised by
\* zipfile.ZipFile on a file that is not an archive.
BadZipFile == [type |-> "BadZipFile", stations |-> {}]

\* ------------------------------------------------------------- state
VARIABLES pc, input, full_dates, interpolated, window, df_sum,
          rolling_precip_sum, spi, error, args, result, unzipped_data,
          downloaded

vars == <<pc, input, full_dates, interpolated, window, df_sum,
          rolling_precip_sum, spi, error, args, result, unzipped_data,
          downloaded>>

\* args and result hold the arguments and the outcome of a function that
\* is called on its own, outside the run of main.

\* The exception that ended the run (<<>> while none was raised): its type
\* and the station codes its message names.
\* ValueError("cannot handle a non-unique multi-index!"), raised by
\* DataFrame.reindex on an index with a repeated (date, station_code).
ReindexError == [type |-> "ValueError", stations |-> {}]

\* FitError("Optimization converged to parameters that are outside the
\* range allowed by the distribution."), raised by stats.gamma.fit.
FitError == [type |-> "FitError", stations |-> {}]

InputRows ==
    [station_code : Stations, date : Days, total_precip : Precips \cup {NaN},
     precip_type : PrecipTypes]

\* No two rows of one (station_code, date).
UniqueKeys(df) ==
    \A i, j \in DOMAIN df :
        (df[i].station_code = df[j].station_code /\ df[i].date = df[j].date)
            => i = j

\* The tables main passes to fill_missing_dates: rows in any order.
InputTables ==
    {df \in UNION {[1..n -> InputRows] : n \in 1..MaxRows} : UniqueKeys(df)}

Init ==
    /\ pc = "start"
    /\ input \in InputTables
    /\ full_dates = <<>>
    /\ interpolated = <<>>
    /\ window = 0
    /\ df_sum = <<>>
    /\ rolling_precip_sum = <<>>
    /\ spi = <<>>
    /\ error = <<>>
    /\ unzipped_data = <<>>
    /\ downloaded = 0
    /\ args = <<>>
    /\ result = "none"

\* The completed table, or the error of reindex on an index that is not
\* unique, which nothing in main catches.
FillMissingDates ==
    /\ pc = "start"
    /\ \/ /\ UniqueKeys(input)
          /\ full_dates' = fill_missing_dates(input)
          /\ pc' = "filled"
          /\ error' = error
       \/ /\ ~UniqueKeys(input)
          /\ full_dates' = full_dates
          /\ pc' = "failed"
          /\ error' = ReindexError
    /\ UNCHANGED <<unzipped_data, downloaded>>
    /\ UNCHANGED <<input, interpolated, window, df_sum, rolling_precip_sum, spi,
                   args, result>>

InterpolateTotalPrecip ==
    /\ pc = "filled"
    /\ interpolated' = interpolate_total_precip(full_dates)
    /\ pc' = "interpolated"
    /\ UNCHANGED <<unzipped_data, downloaded>>
    /\ UNCHANGED <<input, full_dates, window, df_sum, rolling_precip_sum, spi,
                   error, args, result>>

\* One iteration of the loop over the window lengths, first step.
CalculateStationsRollingPrecipitationSum ==
    /\ pc \in {"interpolated", "plotted"}
    /\ df_sum' = MonthlyTotals(interpolated)
    /\ \E w \in 1..MaxWindow :
        /\ window' = w
        /\ rolling_precip_sum' = RollingOfTotals(df_sum', w)
    /\ spi' = <<>>
    /\ pc' = "rolled"
    /\ UNCHANGED <<unzipped_data, downloaded>>
    /\ UNCHANGED <<input, full_dates, interpolated, error, args, result>>

\* Second step: the SPI table of the window, which is also what is
\* written to spi_<window>.csv, or the error of the gamma fit of a
\* station, which nothing in main catches: the run ends there, without
\* the SPI table of the window.
CalculateStationsSpi ==
    /\ pc = "rolled"
    /\ \/ /\ spi' = calculate_stations_spi(rolling_precip_sum)
          /\ pc' = "spi"
          /\ error' = error
       \/ /\ GammaFitCanRaise(rolling_precip_sum)
          /\ spi' = spi
          /\ pc' = "failed"
          /\ error' = FitError
    /\ UNCHANGED <<unzipped_data, downloaded>>
    /\ UNCHANGED <<input, full_dates, interpolated, window, df_sum,
                   rolling_precip_sum, args, result>>

\* Third step: the plot of the window.  The function writes the column
\* date into the two tables it is given, before it draws; with no station
\* to draw, plt.subplots raises and the run ends.
PlotSpiAndTotalPrecipTimeSeries ==
    /\ pc = "spi"
    /\ rolling_precip_sum' = WithDateColumn(rolling_precip_sum)
    /\ spi' = WithDateColumn(spi)
    /\ IF rolling_precip_sum = <<>>
       THEN pc' = "failed" /\ error' = SubplotsError
       ELSE pc' = "plotted" /\ error' = error
    /\ UNCHANGED <<unzipped_data, downloaded>>
    /\ UNCHANGED <<input, full_dates, interpolated, window, df_sum, args,
                   result>>

Next ==
    \/ FillMissingDates
    \/ InterpolateTotalPrecip
    \/ CalculateStationsRollingPrecipitationSum
    \/ CalculateStationsSpi
    \/ PlotSpiAndTotalPrecipTimeSeries

Spec == Init /\ [][Next]_vars

\* ---------------------------------------- the stages called on their own
\* The daily tables calculate_stations_rolling_precipitation_sum is given:
\* the tables the pipeline passes it, and tables of rows in any order.
DailyTables ==
    {interpolate_total_precip(fill_missing_dates(df)) : df \in InputTables}
        \cup InputTables

InitRolling ==
    /\ pc = "interpolated"
    /\ interpolated \in DailyTables
    /\ input = <<>>
    /\ full_dates = <<>>
    /\ window = 0
    /\ df_sum = <<>>
    /\ rolling_precip_sum = <<>>
    /\ spi = <<>>
    /\ error = <<>>
    /\ unzipped_data = <<>>
    /\ downloaded = 0
    /\ args = <<>>
    /\ result = "none"

NextRolling ==
    \/ CalculateStationsRollingPrecipitationSum
    \/ CalculateStationsSpi

SpecRolling == InitRolling /\ [][NextRolling]_vars

\* The tables fill_missing_dates is given when nothing has checked their
\* keys: rows in any order, a (station_code, date) possibly repeated.
UncheckedTables == UNION {[1..n -> InputRows] : n \in 1..MaxRows}

InitFill ==
    /\ pc = "start"
    /\ input \in UncheckedTables
    /\ full_dates = <<>>
    /\ interpolated = <<>>
    /\ window = 0
    /\ df_sum = <<>>
    /\ rolling_precip_sum = <<>>
    /\ spi = <<>>
    /\ error = <<>>
    /\ unzipped_data = <<>>
    /\ downloaded = 0
    /\ args = <<>>
    /\ result = "none"

NextFill == FillMissingDates

SpecFill == InitFill /\ [][NextFill]_vars

\* The names validate_zip is given: the names of the IMGW archives
\* (year, underscore, month), the names of its documentation
\* (example_2023.zip, example_2019.zip) and names without an underscore or
\* with another ending.
NameHeads ==
    {<<"2", "0", "1", "9">>, <<"2", "0", "2", "3">>,
     <<"e", "x", "a", "m", "p", "l", "e">>}

NameTails ==
    {<<>>, <<"_", "0", "1">>, <<"_", "2", "0", "1", "9">>,
     <<"_", "2", "0", "2", "3">>}

NameEndings ==
    {<<".", "z", "i", "p">>, <<".", "Z", "I", "P">>, <<".", "c", "s", "v">>}

Names ==
    {h \o t \o e : h \in NameHeads, t \in NameTails, e \in NameEndings}

\* The year ranges of the calls.
StartYears == {2019, 2020, 2023}
EndYears == {2019, 2023, 2025}

InitValidateZip ==
    /\ pc = "validate_zip"
    /\ args \in [name : Names, start_year : StartYears, end_year : EndYears]
    /\ result = "none"
    /\ input = <<>>
    /\ full_dates = <<>>
    /\ interpolated = <<>>
    /\ window = 0
    /\ df_sum = <<>>
    /\ rolling_precip_sum = <<>>
    /\ spi = <<>>
    /\ error = <<>>
    /\ unzipped_data = <<>>
    /\ downloaded = 0

ValidateZip ==
    /\ pc = "validate_zip"
    /\ result' = validate_zip(args.name, args.start_year, args.end_year)
    /\ pc' = IF result' = "ValueError" THEN "failed" ELSE "returned"
    /\ UNCHANGED <<unzipped_data, downloaded>>
    /\ UNCHANGED <<args, input, full_dates, interpolated, window, df_sum,
                   rolling_precip_sum, spi, error>>

NextValidateZip == ValidateZip

SpecValidateZip == InitValidateZip /\ [][NextValidateZip]_vars

\* The tables drop_stations_below_threshold is given: rows of a station
\* code, the name the stations file gives that code, and a date.  One code
\* has one name; two codes can have the same name.
StationNames == {"KATOWICE", "BIELSKO"}

ThresholdRows == [station_code : Stations, name : StationNames, date : {1, 2}]

ThresholdTables ==
    {df \in UNION {[1..n -> ThresholdRows] : n \in 1..(MaxRows + 1)} :
        \A i, j \in DOMAIN df :
            df[i].station_code = df[j].station_code => df[i].name = df[j].name}

InitDropStations ==
    /\ pc = "drop_stations_below_threshold"
    /\ args \in [df : ThresholdTables, threshold : 1..(MaxRows + 1)]
    /\ result = "none"
    /\ input = <<>>
    /\ full_dates = <<>>
    /\ interpolated = <<>>
    /\ window = 0
    /\ df_sum = <<>>
    /\ rolling_precip_sum = <<>>
    /\ spi = <<>>
    /\ error = <<>>
    /\ unzipped_data = <<>>
    /\ downloaded = 0

DropStationsBelowThreshold ==
    /\ pc = "drop_stations_below_threshold"
    /\ result' = drop_stations_below_threshold(args.df, args.threshold)
    /\ pc' = "returned"
    /\ UNCHANGED <<unzipped_data, downloaded>>
    /\ UNCHANGED <<args, input, full_dates, interpolated, window, df_sum,
                   rolling_precip_sum, spi, error>>

NextDropStations == DropStationsBelowThreshold

SpecDropStations == InitDropStations /\ [][NextDropStations]_vars

\* The archives obtain_data downloads, in the order of the links: the
\* file name, the members, and what is wrong with the downloaded file
\* (nothing; it cannot be opened as an archive; a member cannot be
\* extracted).
MaxArchives == 3

ArchiveNames ==
    {<<"2", "0", "1", "9", "_", "0", "1">>, <<"2", "0", "2", "3", "_", "0", "1">>}

Archives ==
    [name : ArchiveNames, members : {<<"o">>, <<"o", "s">>},
     fault : {"none", "open", "extract"}]

InitObtainData ==
    /\ pc = "obtain_data"
    /\ args \in [zip_files_urls :
                    UNION {[1..n -> Archives] : n \in 0..MaxArchives}]
    /\ result = "none"
    /\ unzipped_data = <<>>
    /\ downloaded = 0
    /\ input = <<>>
    /\ full_dates = <<>>
    /\ interpolated = <<>>
    /\ window = 0
    /\ df_sum = <<>>
    /\ rolling_precip_sum = <<>>
    /\ spi = <<>>
    /\ error = <<>>

\* One iteration of the loop over zip_files_urls: download_zip, then
\* unzip_file, then unzipped_data.extend.  Nothing in obtain_data catches
\* what unzip_file raises: the call ends there.
DownloadAndUnzip ==
    /\ pc = "obtain_data"
    /\ downloaded < Len(args.zip_files_urls)
    /\ downloaded' = downloaded + 1
    /\ LET unzipped_files == unzip_file(args.zip_files_urls[downloaded + 1])
       IN  IF unzipped_files.raised
           THEN /\ pc' = "failed"
                /\ error' = BadZipFile
                /\ unzipped_data' = unzipped_data
           ELSE /\ pc' = pc
                /\ error' = error
                /\ unzipped_data' = unzipped_data \o unzipped_files.files
    /\ UNCHANGED <<args, result, input, full_dates, interpolated, window,
                   df_sum, rolling_precip_sum, spi>>

\* return unzipped_data, after the last link.
ReturnUnzippedData ==
    /\ pc = "obtain_data"
    /\ downloaded = Len(args.zip_files_urls)
    /\ result' = unzipped_data
    /\ pc' = "returned"
    /\ UNCHANGED <<args, unzipped_data, downloaded, input, full_dates,
                   interpolated, window, df_sum, rolling_precip_sum, spi,
                   error>>

NextObtainData ==
    \/ DownloadAndUnzip
    \/ ReturnUnzippedData

SpecObtainData == InitObtainData /\ [][NextObtainData]_vars

\* The rolling-sum tables calculate_stations_spi is given: rows of
\* distinct (station_code, year, month) in any order.
RollingRows ==
    [station_code : Stations,
     year : {Calendar[d].year : d \in Days},
     month : {Calendar[d].month : d \in Days},
     total_precip : Precips]

RollingTables ==
    {df \in UNION {[1..n -> RollingRows] : n \in 1..(MaxRows + 1)} :
        \A i, j \in DOMAIN df :
            (/\ df[i].station_code = df[j].station_code
             /\ df[i].year = df[j].year
             /\ df[i].month = df[j].month) => i = j}

InitSpi ==
    /\ pc = "rolled"
    /\ rolling_precip_sum \in RollingTables
    /\ input = <<>>
    /\ full_dates = <<>>
    /\ interpolated = <<>>
    /\ window = 1
    /\ df_sum = <<>>
    /\ spi = <<>>
    /\ error = <<>>
    /\ unzipped_data = <<>>
    /\ downloaded = 0
    /\ args = <<>>
    /\ result = "none"

NextSpi == CalculateStationsSpi

SpecSpi == InitSpi /\ [][NextSpi]_vars

\* The canonical run: station 1 with two whole years of daily values,
\* station 2 with one year of daily values but for a gap inside it, and
\* station 3 with the record of a single day.
CanonicalStationA ==
    {[d \in 1..(2 * DaysPerYear) |->
         [station_code |-> 1, date |-> d, total_precip |-> v[d],
          precip_type |-> "W"]] :
     v \in [1..(2 * DaysPerYear) -> Precips]}

CanonicalStationB ==
    {<<[station_code |-> 2, date |-> first, total_precip |-> v1,
        precip_type |-> "W"],
       [station_code |-> 2, date |-> first + DaysPerYear - 1,
        total_precip |-> v2, precip_type |-> "W"]>> :
     first \in {1, DaysPerYear + 1}, v1 \in Precips, v2 \in Precips}

CanonicalStationC ==
    {<<[station_code |-> 3, date |-> d, total_precip |-> v,
        precip_type |-> "W"]>> :
     d \in 1..(2 * DaysPerYear), v \in Precips}

InitCanonical ==
    /\ pc = "start"
    /\ \E a \in CanonicalStationA, b \in CanonicalStationB,
          c \in CanonicalStationC : input = a \o b \o c
    /\ full_dates = <<>>
    /\ interpolated = <<>>
    /\ window = 0
    /\ df_sum = <<>>
    /\ rolling_precip_sum = <<>>
    /\ spi = <<>>
    /\ error = <<>>
    /\ unzipped_data = <<>>
    /\ downloaded = 0
    /\ args = <<>>
    /\ result = "none"

SpecCanonical == InitCanonical /\ [][Next]_vars

\* ------------------------------------------------------------ claims
\* The rows of one station, in table order.
RowsOf(df, station) == SelectSeq(df, LAMBDA r : r.station_code = station)

ObservedDates(df, station) ==
    {df[i].date : i \in {j \in DOMAIN df : df[j].station_code = station}}

\* C1: after fill_missing_dates every station of the input has exactly one
\* row for each day between its own first and its own last observed date,
\* and no row outside that span.
C1_OneRowPerDayOfOwnSpan ==
    pc = "filled" =>
        \A s \in StationCodes(input) :
            LET lo == Min(ObservedDates(input, s))
                hi == Max(ObservedDates(input, s))
                rows == RowsOf(full_dates, s)
            IN  /\ Len(rows) = hi - lo + 1
                /\ \A d \in lo..hi :
                       Cardinality({i \in DOMAIN rows : rows[i].date = d}) = 1

HasObservedValue(station) ==
    \E i \in DOMAIN input :
        input[i].station_code = station /\ input[i].total_precip # NaN

Bracketed(i, j1, j2) ==
    /\ full_dates[i].total_precip = NaN
    /\ full_dates[j1].station_code = full_dates[i].station_code
    /\ full_dates[j2].station_code = full_dates[i].station_code
    /\ full_dates[j1].total_precip # NaN
    /\ full_dates[j2].total_precip # NaN
    /\ full_dates[j1].date < full_dates[i].date
    /\ full_dates[i].date < full_dates[j2].date
    /\ \A k \in DOMAIN full_dates :
        (/\ full_dates[k].station_code = full_dates[i].station_code
         /\ full_dates[k].total_precip # NaN)
            => (full_dates[k].date <= full_dates[j1].date
                \/ full_dates[k].date >= full_dates[j2].date)

KnownDatesOf(station) ==
    {full_dates[k].date : k \in {j \in DOMAIN full_dates :
        /\ full_dates[j].station_code = station
        /\ full_dates[j].total_precip # NaN}}

ValueOn(station, d) ==
    full_dates[CHOOSE k \in DOMAIN full_dates :
        /\ full_dates[k].station_code = station
        /\ full_dates[k].date = d].total_precip

\* C4: a missing value before the first known value of its station takes
\* that first value, and one after the last known value takes that last
\* value, of the same station.
C4_BoundaryTakesNearestOwnValue ==
    pc = "interpolated" =>
        \A i \in DOMAIN full_dates :
            LET s == full_dates[i].station_code
                known == KnownDatesOf(s)
            IN  (full_dates[i].total_precip = NaN /\ known # {}) =>
                    /\ full_dates[i].date < Min(known) =>
                           interpolated[i].total_precip = ValueOn(s, Min(known))
                    /\ full_dates[i].date > Max(known) =>
                           interpolated[i].total_precip = ValueOn(s, Max(known))

\* A station has a missing row before its first known value and another
\* station holds a different value on that very day.
C4_Witness ==
    /\ pc = "interpolated"
    /\ \E i, k \in DOMAIN full_dates :
        /\ full_dates[i].total_precip = NaN
        /\ KnownDatesOf(full_dates[i].station_code) # {}
        /\ full_dates[i].date < Min(KnownDatesOf(full_dates[i].station_code))
        /\ full_dates[k].station_code # full_dates[i].station_code
        /\ full_dates[k].date = full_dates[i].date
        /\ full_dates[k].total_precip # NaN
        /\ full_dates[k].total_precip # interpolated[i].total_precip

\* The daily rows of a station in a month of a year.
DailyRows(s, y, m) ==
    {i \in DOMAIN interpolated :
        /\ interpolated[i].station_code = s
        /\ YearOf(interpolated[i].date) = y
        /\ MonthOf(interpolated[i].date) = m}

TotalRows(s, y, m) ==
    {k \in DOMAIN df_sum :
        /\ df_sum[k].station_code = s
        /\ df_sum[k].year = y
        /\ df_sum[k].month = m}

\* The value a daily row adds to a sum (a missing value adds nothing).
DailyValue ==
    [i \in DOMAIN interpolated |->
        IF interpolated[i].total_precip = NaN THEN 0
        ELSE interpolated[i].total_precip]

\* C5: the monthly totals hold exactly one row for each (station_code,
\* year, month) that has a daily row, and its total_precip is the sum of
\* the daily rows of that station in that month of that year.
C5_MonthlyTotalIsSumOfOwnDays ==
    pc \in {"rolled", "spi"} =>
        \A s \in Stations, d \in DOMAIN Calendar :
            LET y == Calendar[d].year
                m == Calendar[d].month
                days == DailyRows(s, y, m)
                rows == TotalRows(s, y, m)
            IN  IF days = {} THEN rows = {}
                ELSE /\ Cardinality(rows) = 1
                     /\ \A k \in rows :
                            df_sum[k].total_precip = SumOver(DailyValue, days)

\* Two stations, each with days in the same month of two different years
\* and a month of more than one day, have been totalled.
C5_Witness ==
    /\ pc = "rolled"
    /\ \A s \in Stations :
        /\ Cardinality(DailyRows(s, 1, 1)) = 2
        /\ DailyRows(s, 2, 1) # {}
    /\ \E i, j \in DOMAIN interpolated :
        /\ interpolated[i].station_code # interpolated[j].station_code
        /\ interpolated[i].total_precip # interpolated[j].total_precip

NonNegative(n) == IF n < 0 THEN 0 ELSE n

Chronological(rows) ==
    \A j \in DOMAIN rows : \A k \in DOMAIN rows :
        j < k => \/ rows[j].year < rows[k].year
                 \/ rows[j].year = rows[k].year /\ rows[j].month < rows[k].month

\* C6: with window length N a station with M monthly totals gets
\* max(0, M - (N - 1)) rows: none for its first N - 1 months, and for each
\* later month a row of that month whose total_precip is the sum of the
\* station's own N monthly totals ending at that month.
C6_TrailingSumOfOwnMonths ==
    pc \in {"rolled", "spi"} =>
        /\ \A i \in DOMAIN rolling_precip_sum :
               rolling_precip_sum[i].station_code \in StationCodes(df_sum)
        /\ \A s \in StationCodes(df_sum) :
            LET totals == RowsOf(df_sum, s)
                out == RowsOf(rolling_precip_sum, s)
                values == Column(totals, "total_precip")
            IN  /\ Chronological(totals)
                /\ Len(out) = NonNegative(Len(totals) - (window - 1))
                /\ \A j \in DOMAIN out :
                    /\ out[j].year = totals[j + window - 1].year
                    /\ out[j].month = totals[j + window - 1].month
                    /\ out[j].total_precip
                           = SumOver(values, j..(j + window - 1))

\* Two stations of three months each, rolled with a window of three
\* months: one row each, of different sums.
C6_Witness ==
    /\ pc = "rolled"
    /\ window = 3
    /\ \A s \in Stations : Len(RowsOf(df_sum, s)) = 3
    /\ Len(rolling_precip_sum) = 2
    /\ rolling_precip_sum[1].total_precip # rolling_precip_sum[2].total_precip

\* The SPI of a row of the rolling-sum table under the fit of the rows of
\* its own station.
OwnSpi(i) ==
    SpiValue(rolling_precip_sum[i].total_precip,
             calculate_gamma_parameters(
                 Column(RowsOf(rolling_precip_sum,
                               rolling_precip_sum[i].station_code),
                        "total_precip")))

\* C7: whatever the order of the rows given to calculate_stations_spi, the
\* result has the rows and keys of the input, and the SPI of a row is the
\* one of its own total_precip under the gamma fit of its own station.
C7_SpiOfOwnRowAndStation ==
    pc = "spi" =>
        /\ Len(spi) = Len(rolling_precip_sum)
        /\ \A i \in DOMAIN spi :
            /\ spi[i].station_code = rolling_precip_sum[i].station_code
            /\ spi[i].year = rolling_precip_sum[i].year
            /\ spi[i].month = rolling_precip_sum[i].month
            /\ spi[i].total_precip = rolling_precip_sum[i].total_precip
            /\ spi[i].SPI = OwnSpi(i)

\* The pipeline run on the rows of one station alone.
AloneFilled(s) == fill_missing_dates(RowsOf(input, s))
AloneInterpolated(s) == interpolate_total_precip(AloneFilled(s))
AloneRolled(s) ==
    calculate_stations_rolling_precipitation_sum(AloneInterpolated(s), window)
AloneSpi(s) == calculate_stations_spi(AloneRolled(s))

\* C8: the rows every stage produces for a station are those it produces
\* when the rows of the other stations are absent from the input.
C8_StationsDoNotInfluenceOneAnother ==
    \A s \in StationCodes(input) :
        /\ pc = "filled" => RowsOf(full_dates, s) = AloneFilled(s)
        /\ pc = "interpolated" => RowsOf(interpolated, s) = AloneInterpolated(s)
        /\ pc = "rolled" => RowsOf(rolling_precip_sum, s) = AloneRolled(s)
        /\ pc = "spi" => RowsOf(spi, s) = AloneSpi(s)

\* The table with its rows k and k + 1 exchanged.
Exchanged(df, k) ==
    [i \in DOMAIN df |->
        IF i = k THEN df[k + 1] ELSE IF i = k + 1 THEN df[k] ELSE df[i]]

C10_NoFiniteSpiForSingleDayStation ==
    (pc = "spi" /\ window \in {1, 3}) =>
        /\ RowsOf(spi, 1) # <<>>
        /\ RowsOf(spi, 2) # <<>>
        /\ \A i \in DOMAIN spi :
               spi[i].station_code = 3 => ~IsFiniteSpi(spi[i].SPI)

\* Row a comes before row b in the order of (station_code, date).
KeyBefore(a, b) ==
    \/ a.station_code < b.station_code
    \/ a.station_code = b.station_code /\ a.date < b.date

MonthOrdinal(y, m) == y * (Len(MonthLengths) + 1) + m

DayOrdinal(d) == MonthOrdinal(YearOf(d), MonthOf(d))

\* Two daily rows of one station, the later date first.
NotChronological(df) ==
    \E i, j \in DOMAIN df :
        /\ i < j
        /\ df[i].station_code = df[j].station_code
        /\ df[i].date > df[j].date

\* C12: given daily rows that are not in chronological order within a
\* station, calculate_stations_rolling_precipitation_sum orders the months
\* of each station chronologically before summing: every row it returns
\* holds the sum of the station's own days in the `window` latest months
\* of that station up to and including the month of the row.
C12_WindowsOfChronologicalMonths ==
    (pc \in {"rolled", "spi"} /\ NotChronological(interpolated)) =>
        \A i \in DOMAIN rolling_precip_sum :
            LET r == rolling_precip_sum[i]
                days == {k \in DOMAIN interpolated :
                            interpolated[k].station_code = r.station_code}
                upto == {o \in {DayOrdinal(interpolated[k].date) : k \in days} :
                            o <= MonthOrdinal(r.year, r.month)}
                win == {o \in upto :
                           Cardinality({q \in upto : q >= o}) <= window}
            IN  /\ MonthOrdinal(r.year, r.month) \in upto
                /\ Cardinality(win) = window
                /\ r.total_precip
                       = SumOver(DailyValue,
                                 {k \in days :
                                     DayOrdinal(interpolated[k].date) \in win})

\* A station's day of a later month was given before its day of an
\* earlier month, and a window of two months has been summed for it.
C12_Witness ==
    /\ pc = "rolled"
    /\ window = 2
    /\ \E i, j \in DOMAIN interpolated :
        /\ i < j
        /\ interpolated[i].station_code = interpolated[j].station_code
        /\ DayOrdinal(interpolated[i].date) > DayOrdinal(interpolated[j].date)
        /\ interpolated[i].total_precip # interpolated[j].total_precip
        /\ \E k \in DOMAIN rolling_precip_sum :
            /\ rolling_precip_sum[k].station_code
                   = interpolated[i].station_code
            /\ rolling_precip_sum[k].total_precip
                   = interpolated[i].total_precip + interpolated[j].total_precip

\* C13: when the rolling-sum series of a station is degenerate for the
\* gamma fit, calculate_stations_spi reports that station as failed, and
\* its SPI rows are omitted or hold no finite SPI.
C13_DegenerateStationIsReported ==
    pc = "spi" =>
        \A s \in StationCodes(rolling_precip_sum) :
            Degenerate(rolling_precip_sum, s) =>
                /\ s \in ReportedStations(rolling_precip_sum)
                /\ \A i \in DOMAIN spi :
                       spi[i].station_code = s => ~IsFiniteSpi(spi[i].SPI)

\* C14: when the gamma fit raises for one station, the run still produces
\* the SPI rows of every other station of the window: the SPI table holds
\* a row for each rolling-sum row of a station whose series has a fit.
C14_OtherStationsStillGetSpi ==
    pc = "failed" =>
        \A i \in DOMAIN rolling_precip_sum :
            ~Degenerate(rolling_precip_sum, rolling_precip_sum[i].station_code)
                => \E k \in DOMAIN spi :
                       /\ spi[k].station_code
                              = rolling_precip_sum[i].station_code
                       /\ spi[k].year = rolling_precip_sum[i].year
                       /\ spi[k].month = rolling_precip_sum[i].month

\* The stations with two or more rows of one date.
DuplicatedStations(df) ==
    {df[i].station_code : i \in {k \in DOMAIN df :
        \E j \in DOMAIN df :
            /\ j # k
            /\ df[j].station_code = df[k].station_code
            /\ df[j].date = df[k].date}}

\* C15: given two or more rows of one (station_code, date),
\* fill_missing_dates returns no table and stops with an error that names
\* the stations of the repeated keys.
C15_DuplicateKeysRejectedByName ==
    (pc # "start" /\ ~UniqueKeys(input)) =>
        /\ pc = "failed"
        /\ full_dates = <<>>
        /\ error # <<>>
        /\ DuplicatedStations(input) \subseteq error.stations

\* The year a name carries: the number its first run of digits spells
\* (2023 in 2023_01.zip and in example_2023.zip).
NameYear(name) ==
    LET digits == {i \in DOMAIN name : IsDigit(name[i])}
        first == Min(digits)
        last == Max({j \in digits : \A k \in first..j : k \in digits})
    IN  IF digits = {} THEN NotAnInteger
        ELSE ParseInt(SubSeq(name, first, last))

\* C16: validate_zip always returns a boolean: True when the name ends in
\* zip, whatever the case of its letters, and its year lies in
\* start_year..end_year, and False otherwise; example_2023.zip is True
\* for 2020..2025 and example_2019.zip is False.
C16_ValidateZipReturnsDocumentedBoolean ==
    pc # "validate_zip" =>
        LET zip == EndsWith(Lower(args.name), <<"z", "i", "p">>)
            year == NameYear(args.name)
        IN  result = IF zip /\ year \in args.start_year..args.end_year
                     THEN "True" ELSE "False"

\* The number of rows of a station code.
RecordsOfStation(df, s) ==
    Cardinality({i \in DOMAIN df : df[i].station_code = s})

\* C17: drop_stations_below_threshold returns exactly the rows of the
\* stations (station codes) that have at least threshold rows in the
\* input, in the order of the input, also when two station codes have the
\* same name.
C17_KeepsStationsWithEnoughRecords ==
    pc = "returned" =>
        result = SelectSeq(args.df, LAMBDA r :
                     RecordsOfStation(args.df, r.station_code)
                         >= args.threshold)

\* C18: no stage changes a table it is given: fill_missing_dates leaves
\* its input as it was, interpolate_total_precip the completed table,
\* the rolling sum the interpolated table, calculate_stations_spi the
\* rolling-sum table (no SPI column is added to it), and the plot of the
\* window the rolling-sum table and the SPI table.
C18_NoStageChangesItsArgument ==
    [][/\ pc = "start" => input' = input
       /\ pc = "filled" => full_dates' = full_dates
       /\ pc \in {"interpolated", "plotted"} => interpolated' = interpolated
       /\ pc = "rolled" => rolling_precip_sum' = rolling_precip_sum
       /\ pc = "spi" => /\ rolling_precip_sum' = rolling_precip_sum
                        /\ spi' = spi]_vars

\* C19: the window lengths are independent.  Each iteration of the loop
\* of main takes one listed window, computes its rolling-sum table from
\* the one interpolated table, and from it the SPI table written for that
\* window, a function of the interpolated table and of the window alone;
\* and each iteration runs to its end, so that whatever windows are
\* listed, every one of them gets its table.
C19_EveryListedWindowGetsItsOwnTable ==
    [][/\ pc \in {"interpolated", "plotted"} =>
           /\ pc' = "rolled"
           /\ interpolated' = interpolated
           /\ rolling_precip_sum' =
                  calculate_stations_rolling_precipitation_sum(
                      interpolated, window')
       /\ pc = "rolled" =>
           /\ pc' = "spi"
           /\ window' = window
           /\ spi' = calculate_stations_spi(
                         calculate_stations_rolling_precipitation_sum(
                             interpolated, window))
       /\ pc = "spi" => pc' = "plotted"]_vars

\* The same without the last part: what an iteration that runs to its
\* end computes for its window.
C19_TableOfWindowAlone ==
    pc = "spi" =>
        spi = calculate_stations_spi(
                  calculate_stations_rolling_precipitation_sum(
                      interpolate_total_precip(fill_missing_dates(input)),
                      window))

\* The rows of a table with the key of row r.
RowsWithKey(df, r) ==
    {k \in DOMAIN df :
        df[k].station_code = r.station_code /\ df[k].date = r.date}

FilesOfSound(archives) ==
    Flatten([i \in DOMAIN archives |->
        IF archives[i].fault = "none" THEN unzip_file(archives[i]).files
        ELSE <<>>])

\* C21: whenever an archive cannot be unzipped, because it cannot be
\* opened or because it cannot be extracted, unzip_file returns the empty
\* list and does not raise: obtain_data never ends with an error, goes on
\* to every remaining archive, and returns the extracted files of all the
\* archives that could be unzipped.
C21_BadArchivesAreSkipped ==
    /\ pc # "failed"
    /\ error = <<>>
    /\ pc = "returned" =>
           /\ downloaded = Len(args.zip_files_urls)
           /\ result = FilesOfSound(args.zip_files_urls)
====
